---- MODULE Spec2Model ----
(***************************************************************************)
(* A model of singer_sdk.tap_base.Tap (stream resolution, bookmarks,       *)
(* sync_one / sync_all) and of the sample GitLab streams                   *)
(* (gitlab_rest_streams.py).                                               *)
(*                                                                         *)
(* Python values are modelled as follows.                                  *)
(*  - A str that the code builds or parses is a sequence of one-character  *)
(*    strings, so that str.split can be computed.                          *)
(*  - An optional value (a dict key that may be missing, None) is a set    *)
(*    with at most one element: {} is "missing".                           *)
(*  - A dict whose insertion order matters is a sequence.                  *)
(***************************************************************************)
EXTENDS Integers, Sequences, FiniteSets, TLC

VARIABLES
    config,        \* PluginBase.config: [project_ids, start_date]
    _input_catalog,\* Tap._input_catalog: {} is None, {c} is the catalog dict c
    fault,         \* what fails in this run: [kind, stream]
    load_calls,    \* number of calls of load_streams() so far (history)
    applied,       \* streams apply_catalog was called on, in order (history)
    accesses,      \* one entry per evaluation of Tap.streams by a caller (history)
    load_result,   \* the list load_streams() returns (stream names, in order)
    replication,   \* per stream: [method, key] (Stream.replication_method / .replication_key)
    max_pk_values, \* what singer._get_bookmark("max_pk_values") does in this build
    _streams,      \* Tap._streams: {} is None, {seq} is the cached dict (insertion order)
    _state,        \* Tap._state
    state0,        \* the state dict the Tap was constructed with (history)
    output,        \* the messages written so far (SCHEMA / RECORD / STATE)
    pc,            \* "idle", "sync_one", "sync_all", "done", "failed"
    error,         \* "none" or the exception that left the operation
    arg,           \* sync_one's stream_name
    pos,           \* sync_all: index in _streams.values() of the stream in turn
    cur,           \* the running Stream.sync: [name, phase, substreams, idx]
    started,       \* streams whose sync() has begun, in order (history)
    completed,     \* streams whose sync() has returned, in order (history)
    processed,     \* per stream: the records handed to update_bookmarks (history)
    nfetched,      \* records fetched so far in this run
    substream_ids, \* result of a direct get_substream_ids() call
    params         \* results of direct get_params calls, one per element of substream_ids

vars == <<config, _input_catalog, fault, load_calls, applied, accesses, load_result, replication, max_pk_values, _streams, _state, state0, output, pc,
          error, arg, pos, cur, started, completed, processed, nfetched,
          substream_ids, params>>

-----------------------------------------------------------------------------
\* Bounds of the model.

\* Records the fetch collaborator yields in one run.
MaxRecords == 2
\* Configured project ids have at most MaxIdLen characters.
MaxIdLen == 2
\* The configured project_ids list has at most MaxProjectIds entries.
MaxProjectIds == 2
MaxAccesses == 2

-----------------------------------------------------------------------------
\* Generic helpers.

Range(s) == {s[i] : i \in 1..Len(s)}

Last(s) == s[Len(s)]

NoDuplicates(s) == \A i, j \in 1..Len(s) : i # j => s[i] # s[j]

\* All sequences over S of length 0..n.
SeqsUpTo(S, n) == UNION {[1..k -> S] : k \in 0..n}

-----------------------------------------------------------------------------
\* Python str operations.

\* The characters a configured project id is made of.
IdChars == {"a", "/", "=", ","}

\* The index of the first occurrence of character c in s, 0 when there is none.
Find(s, c) ==
    IF \E i \in 1..Len(s) : s[i] = c
    THEN CHOOSE i \in 1..Len(s) : s[i] = c /\ \A j \in 1..(i - 1) : s[j] # c
    ELSE 0

\* str.split(sep) for a one-character separator: the list of the pieces.
RECURSIVE Split(_, _)
Split(s, sep) ==
    LET i == Find(s, sep) IN
    IF i = 0 THEN <<s>>
    ELSE <<SubSeq(s, 1, i - 1)>> \o Split(SubSeq(s, i + 1, Len(s)), sep)

Digit == <<"0", "1", "2", "3", "4", "5", "6", "7", "8", "9">>

\* str(n) for a natural number n, as f"{n}" formats it.
RECURSIVE ToStr(_)
ToStr(n) ==
    IF n < 10 THEN <<Digit[n + 1]>>
    ELSE ToStr(n \div 10) \o <<Digit[(n % 10) + 1]>>

\* The literal "project_id=" of the f-string in get_substream_ids.
ProjectIdPrefix == <<"p", "r", "o", "j", "e", "c", "t", "_", "i", "d", "=">>

\* The literal "epic=" of the f-string in EpicsStream.post_process.
EpicPrefix == <<"e", "p", "i", "c", "=">>

-----------------------------------------------------------------------------
\* The streams of the sample tap and their class attributes.

\* ProjectsStream.name, EpicsStream.name, EpicIssuesStream.name.
StreamNames == {"projects", "epics", "epic_issues"}

\* Stream.primary_keys: ["id"] for each of the three streams.
primary_keys(stream) == {"id"}

\* Stream.parent_stream_types, by stream name.
parent_stream_types(stream) == IF stream = "epic_issues" THEN {"epics"} ELSE {}

\* The classes that derive from ProjectBasedStream.
ProjectBasedStreams == {"projects", "epics"}

\* Stream.get_stream_version(): the value of the version marker.
get_stream_version(stream) == 1

\* stream.replication_method and stream.replication_key, as resolved for the run.
replication_method(stream) == replication[stream].method

replication_key(stream) == replication[stream].key

\* Values of a record's id field: two different entities.
RecordIds == {1, 2}

\* Replication-key values: an earlier and a later one.
KeyValues == {1, 2}

\* The records the fetch collaborator can yield.
Records == [id : RecordIds, updated_at : KeyValues]

-----------------------------------------------------------------------------
\* The bookmark state: {} or {"bookmarks": {tap_stream_id: {key: value}}}.
\* keys is the set of top-level keys of the dict; bookmarks maps the stream ids
\* that have an entry to their bookmark dict. In a bookmark dict every key is an
\* optional value; substreams lists the per-substream states in insertion order.

EmptyBookmark ==
    [version |-> {}, last_pk_fetched |-> {}, replication_key |-> {},
     replication_key_value |-> {}, substreams |-> <<>>]

NoBookmarks == [x \in {} |-> EmptyBookmark]

EmptyState == [keys |-> {}, bookmarks |-> NoBookmarks]

\* state["bookmarks"].get(tap_stream_id, {})
BookmarkOf(state, tap_stream_id) ==
    IF tap_stream_id \in DOMAIN state.bookmarks
    THEN state.bookmarks[tap_stream_id]
    ELSE EmptyBookmark

\* state with state["bookmarks"][tap_stream_id] set to bookmark (the path is
\* created when it is missing).
WithBookmark(state, tap_stream_id, bookmark) ==
    [keys |-> state.keys \cup {"bookmarks"},
     bookmarks |-> [x \in DOMAIN state.bookmarks \cup {tap_stream_id} |->
                        IF x = tap_stream_id THEN bookmark ELSE state.bookmarks[x]]]

\* write_bookmark with a bug: the key is set in the bookmark of every stream
\* the state holds, not only in the one of tap_stream_id.
write_bookmark_all(state, tap_stream_id, key, val) ==
    LET s1 == WithBookmark(state, tap_stream_id,
                  [BookmarkOf(state, tap_stream_id) EXCEPT ![key] = {val}])
    IN  [s1 EXCEPT !.bookmarks = [x \in DOMAIN s1.bookmarks |->
                                     [s1.bookmarks[x] EXCEPT ![key] = {val}]]]

\* singer.write_bookmark(state, tap_stream_id, key, val)
write_bookmark(state, tap_stream_id, key, val) ==
    WithBookmark(state, tap_stream_id,
                 [BookmarkOf(state, tap_stream_id) EXCEPT ![key] = {val}])

\* Tap.merge_bookmarks: new_bookmarks is the list of the dict's items.
RECURSIVE merge_bookmarks(_, _, _)
merge_bookmarks(state, stream, new_bookmarks) ==
    IF new_bookmarks = <<>> THEN state
    ELSE merge_bookmarks(
             write_bookmark(state, stream, Head(new_bookmarks)[1], Head(new_bookmarks)[2]),
             stream, Tail(new_bookmarks))

\* {k: v for k, v in latest_record.items() if k in (stream.primary_keys or [])}
PkValues(stream, latest_record) ==
    [k \in DOMAIN latest_record \cap primary_keys(stream) |-> latest_record[k]]

\* What the call singer._get_bookmark("max_pk_values") can do: the singer
\* library is not part of this code base, so every outcome is kept: the call
\* raises (the library has no such function, or not with one parameter), or
\* it returns a false or a true value. The outcome is fixed by the build.
GetBookmarkOutcomes == {"raise", "falsy", "truthy"}

\* update_bookmarks with a bug: a replication_key_value already stored is kept
\* (the value is set only when the key is missing).
update_bookmarks_keeps_first(state, stream, latest_record) ==
    LET s1 == IF state.keys = {}
              THEN merge_bookmarks(state, stream,
                                   << <<"version", get_stream_version(stream)>> >>)
              ELSE state
    IN  IF DOMAIN latest_record = {} THEN [state |-> s1, raised |-> "none"]
        ELSE IF replication_method(stream) = "FULL_TABLE"
        THEN CASE max_pk_values = "raise" ->
                      [state |-> s1, raised |-> "AttributeError"]
               [] max_pk_values = "truthy" ->
                      [state |-> merge_bookmarks(s1, stream,
                                     << <<"last_pk_fetched",
                                          PkValues(stream, latest_record)>> >>),
                       raised |-> "none"]
               [] OTHER -> [state |-> s1, raised |-> "none"]
        ELSE IF replication_method(stream) \in {"INCREMENTAL", "LOG_BASED"}
                /\ replication_key(stream) # {}
        THEN LET k == CHOOSE k \in replication_key(stream) : TRUE IN
             IF k \notin DOMAIN latest_record
             THEN [state |-> s1, raised |-> "KeyError"]
             ELSE IF BookmarkOf(s1, stream).replication_key_value # {}
             THEN [state |-> merge_bookmarks(s1, stream, << <<"replication_key", k>> >>),
                   raised |-> "none"]
             ELSE [state |-> merge_bookmarks(s1, stream,
                                 << <<"replication_key", k>>,
                                    <<"replication_key_value", latest_record[k]>> >>),
                   raised |-> "none"]
        ELSE [state |-> s1, raised |-> "none"]

\* update_bookmarks with a bug: the record's id is stored as
\* replication_key_value instead of the value of the replication key.
update_bookmarks_wrong_field(state, stream, latest_record) ==
    LET s1 == IF state.keys = {}
              THEN merge_bookmarks(state, stream,
                                   << <<"version", get_stream_version(stream)>> >>)
              ELSE state
    IN  IF DOMAIN latest_record = {} THEN [state |-> s1, raised |-> "none"]
        ELSE IF replication_method(stream) = "FULL_TABLE"
        THEN CASE max_pk_values = "raise" ->
                      [state |-> s1, raised |-> "AttributeError"]
               [] max_pk_values = "truthy" ->
                      [state |-> merge_bookmarks(s1, stream,
                                     << <<"last_pk_fetched",
                                          PkValues(stream, latest_record)>> >>),
                       raised |-> "none"]
               [] OTHER -> [state |-> s1, raised |-> "none"]
        ELSE IF replication_method(stream) \in {"INCREMENTAL", "LOG_BASED"}
                /\ replication_key(stream) # {}
        THEN LET k == CHOOSE k \in replication_key(stream) : TRUE IN
             IF k \notin DOMAIN latest_record
             THEN [state |-> s1, raised |-> "KeyError"]
             ELSE [state |-> merge_bookmarks(s1, stream,
                                 << <<"replication_key", k>>,
                                    <<"replication_key_value", latest_record["id"]>> >>),
                   raised |-> "none"]
        ELSE [state |-> s1, raised |-> "none"]

\* update_bookmarks with a bug: when the lookup raises, the state is put back
\* to the one the Tap was constructed with.
update_bookmarks_rollback(state, stream, latest_record) ==
    LET s1 == IF state.keys = {}
              THEN merge_bookmarks(state, stream,
                                   << <<"version", get_stream_version(stream)>> >>)
              ELSE state
    IN  IF DOMAIN latest_record = {} THEN [state |-> s1, raised |-> "none"]
        ELSE IF replication_method(stream) = "FULL_TABLE"
        THEN CASE max_pk_values = "raise" ->
                      [state |-> state0, raised |-> "AttributeError"]
               [] max_pk_values = "truthy" ->
                      [state |-> merge_bookmarks(s1, stream,
                                     << <<"last_pk_fetched",
                                          PkValues(stream, latest_record)>> >>),
                       raised |-> "none"]
               [] OTHER -> [state |-> s1, raised |-> "none"]
        ELSE IF replication_method(stream) \in {"INCREMENTAL", "LOG_BASED"}
                /\ replication_key(stream) # {}
        THEN LET k == CHOOSE k \in replication_key(stream) : TRUE IN
             IF k \notin DOMAIN latest_record
             THEN [state |-> s1, raised |-> "KeyError"]
             ELSE [state |-> merge_bookmarks(s1, stream,
                                 << <<"replication_key", k>>,
                                    <<"replication_key_value", latest_record[k]>> >>),
                   raised |-> "none"]
        ELSE [state |-> s1, raised |-> "none"]

\* Tap.update_bookmarks(stream, latest_record): the state afterwards and
\* the exception the call raised ("none" when it returned).
update_bookmarks(state, stream, latest_record) ==
    LET s1 == IF state.keys = {}
              THEN merge_bookmarks(state, stream,
                                   << <<"version", get_stream_version(stream)>> >>)
              ELSE state
    IN  IF DOMAIN latest_record = {} THEN [state |-> s1, raised |-> "none"]
        ELSE IF replication_method(stream) = "FULL_TABLE"
        THEN CASE max_pk_values = "raise" ->
                      [state |-> s1, raised |-> "AttributeError"]
               [] max_pk_values = "truthy" ->
                      [state |-> merge_bookmarks(s1, stream,
                                     << <<"last_pk_fetched",
                                          PkValues(stream, latest_record)>> >>),
                       raised |-> "none"]
               [] OTHER -> [state |-> s1, raised |-> "none"]
        ELSE IF replication_method(stream) \in {"INCREMENTAL", "LOG_BASED"}
                /\ replication_key(stream) # {}
        THEN LET k == CHOOSE k \in replication_key(stream) : TRUE IN
             IF k \notin DOMAIN latest_record
             THEN [state |-> s1, raised |-> "KeyError"]
             ELSE [state |-> merge_bookmarks(s1, stream,
                                 << <<"replication_key", k>>,
                                    <<"replication_key_value", latest_record[k]>> >>),
                   raised |-> "none"]
        ELSE [state |-> s1, raised |-> "none"]

-----------------------------------------------------------------------------
\* Substream states (singer_sdk.helpers).

\* The state of one substream: the parent-derived values it holds.
EmptySubstreamState == [epic_id |-> {}]

\* helpers.ensure_stream_state_exists(state, tap_stream_id, substream=...):
\* creates the (empty) state of the substream unless it exists.
ensure_stream_state_exists(state, tap_stream_id, substream) ==
    LET b == BookmarkOf(state, tap_stream_id) IN
    IF \E i \in 1..Len(b.substreams) : b.substreams[i].id = substream
    THEN WithBookmark(state, tap_stream_id, b)
    ELSE WithBookmark(state, tap_stream_id,
             [b EXCEPT !.substreams =
                 Append(@, [id |-> substream, state |-> EmptySubstreamState])])

\* helpers.read_stream_state(state, (name, substream_id))
read_stream_state(state, name, substream_id) ==
    LET subs == BookmarkOf(state, name).substreams IN
    IF \E i \in 1..Len(subs) : subs[i].id = substream_id
    THEN subs[CHOOSE i \in 1..Len(subs) : subs[i].id = substream_id].state
    ELSE EmptySubstreamState

-----------------------------------------------------------------------------
\* Substream enumeration and request parameters (gitlab_rest_streams.py).

\* ProjectBasedStream.get_substream_ids
ProjectBasedStream_get_substream_ids(cfg) ==
    [i \in 1..Len(cfg.project_ids) |-> ProjectIdPrefix \o cfg.project_ids[i]]

\* Stream.get_substream_ids of a stream that depends on a parent: the
\* substreams registered in the state for the stream, in registration order.
Stream_get_substream_ids(state, stream) ==
    LET subs == BookmarkOf(state, stream).substreams IN
    [i \in 1..Len(subs) |-> subs[i].id]

get_substream_ids(cfg, state, stream) ==
    IF stream \in ProjectBasedStreams
    THEN ProjectBasedStream_get_substream_ids(cfg)
    ELSE Stream_get_substream_ids(state, stream)

\* GitlabStream.get_params: raised is "none" or the exception.
GitlabStream_get_params(cfg, substream_id) ==
    LET parts == Split(Split(substream_id, ",")[1], "=") IN
    IF Len(parts) < 2
    THEN [raised |-> "IndexError", project_id |-> {}, start_date |-> {}, epic_id |-> {}]
    ELSE [raised |-> "none", project_id |-> {parts[2]},
          start_date |-> cfg.start_date, epic_id |-> {}]

DependencyStateError == "ValueError: cannot sync epic issues without known epic IDs"

\* EpicIssuesStream.get_params with a bug: the check of epic_id is missing.
EpicIssuesStream_get_params_unchecked(cfg, state, substream_id) ==
    LET substream_state == read_stream_state(state, "epic_issues", substream_id)
        result == GitlabStream_get_params(cfg, substream_id)
    IN  IF result.raised # "none" THEN result
        ELSE [result EXCEPT !.epic_id = substream_state.epic_id]

\* EpicIssuesStream.get_params
EpicIssuesStream_get_params(cfg, state, substream_id) ==
    LET substream_state == read_stream_state(state, "epic_issues", substream_id) IN
    IF substream_state.epic_id = {}
    THEN [raised |-> DependencyStateError, project_id |-> {}, start_date |-> {}, epic_id |-> {}]
    ELSE LET result == GitlabStream_get_params(cfg, substream_id) IN
         IF result.raised # "none" THEN result
         ELSE [result EXCEPT !.epic_id = substream_state.epic_id]

get_params(cfg, state, stream, substream_id) ==
    IF stream = "epic_issues"
    THEN EpicIssuesStream_get_params(cfg, state, substream_id)
    ELSE GitlabStream_get_params(cfg, substream_id)

\* post_process with a bug: the substream is registered under the stream's own
\* name instead of "epic_issues".
post_process_own_name(state, stream, row) ==
    IF stream = "epics"
    THEN ensure_stream_state_exists(state, "epics", EpicPrefix \o ToStr(row.id))
    ELSE state

\* EpicsStream.post_process (the state afterwards); Stream.post_process
\* returns the row and leaves the state alone.
post_process(state, stream, row) ==
    IF stream = "epics"
    THEN ensure_stream_state_exists(state, "epic_issues", EpicPrefix \o ToStr(row.id))
    ELSE state

-----------------------------------------------------------------------------
\* The inputs of a run.

\* What load_streams() can return: the sample's streams, any of them, in any order.
LoadResults == {s \in SeqsUpTo(StreamNames, Cardinality(StreamNames)) :
                    s # <<>> /\ NoDuplicates(s)}

\* Replication method and key of one stream.
ReplicationOptions ==
    {[method |-> "FULL_TABLE", key |-> {}],
     [method |-> "INCREMENTAL", key |-> {"updated_at"}],
     [method |-> "INCREMENTAL", key |-> {}],
     [method |-> "LOG_BASED", key |-> {"updated_at"}]}

FullTable == [method |-> "FULL_TABLE", key |-> {}]

\* The replication settings of a run: the sample's streams are FULL_TABLE
\* (replication_key = None); at most one of the two project-based streams
\* is given another method.
ReplicationChoices ==
    {r \in [StreamNames -> ReplicationOptions] :
        /\ r["epic_issues"] = FullTable
        /\ Cardinality({s \in StreamNames : r[s] # FullTable}) <= 1}

\* The state dicts a Tap is constructed with: none, bookmarks of another
\* stream from an earlier run, and substream states of epic_issues with and
\* without the parent-derived epic_id.
InputStates ==
    {EmptyState,
     WithBookmark(EmptyState, "projects", [EmptyBookmark EXCEPT !.version = {1}]),
     WithBookmark(EmptyState, "epic_issues",
         [EmptyBookmark EXCEPT !.substreams =
             << [id |-> EpicPrefix \o ToStr(1), state |-> [epic_id |-> {1}]] >>]),
     WithBookmark(EmptyState, "epic_issues",
         [EmptyBookmark EXCEPT !.substreams =
             << [id |-> EpicPrefix \o ToStr(1), state |-> [epic_id |-> {1}]],
                [id |-> EpicPrefix \o ToStr(2), state |-> EmptySubstreamState] >>])}

\* The names sync_one is called with.
SyncOneNames == StreamNames \cup {"no_such_stream"}

\* Configured project ids, and configurations.
ProjectIds == SeqsUpTo(IdChars, MaxIdLen)

StartDates == {{}, {"2020-01-01"}}

Configs == [project_ids : SeqsUpTo(ProjectIds, MaxProjectIds), start_date : StartDates]

\* The configuration of the sync runs: one project.
SyncConfig == [project_ids |-> << <<"a", "/", "a">> >>, start_date |-> {"2020-01-01"}]

-----------------------------------------------------------------------------
\* Messages of the output protocol. substream is the substream a RECORD was
\* extracted for (bookkeeping of the model: the message does not carry it).

SchemaMessage(stream) ==
    [type |-> "SCHEMA", stream |-> stream, substream |-> <<>>, record |-> {}, value |-> {}]

RecordMessage(stream, substream, record) ==
    [type |-> "RECORD", stream |-> stream, substream |-> substream,
     record |-> {record}, value |-> {}]

StateMessage(state) ==
    [type |-> "STATE", stream |-> "", substream |-> <<>>, record |-> {}, value |-> {state}]

-----------------------------------------------------------------------------
\* The Tap.

NoStream == [name |-> "", phase |-> "NONE", substreams |-> <<>>, idx |-> 0]

PendingStream(name) == [name |-> name, phase |-> "PENDING", substreams |-> <<>>, idx |-> 0]

\* The catalog dicts a Tap is constructed with: the empty dict, and dicts
\* whose "streams" list has entries for the names in streams.
CatalogNames == {"projects", "no_such_stream"}

Catalogs ==
    {[keys |-> {}, streams |-> {}]} \cup
    {[keys |-> {"streams"}, streams |-> S] : S \in SUBSET CatalogNames}

InputCatalogs == {{}} \cup {{c} : c \in Catalogs}

\* What fails in a run: nothing; load_streams(), for a Tap that overrides
\* neither load_streams nor discover_streams; apply_catalog on one stream.
NoFault == [kind |-> "none", stream |-> ""]

Faults ==
    {NoFault, [kind |-> "load_streams", stream |-> ""]} \cup
    {[kind |-> "apply_catalog", stream |-> s] : s \in {"projects", "epics"}}

CatalogError == "CatalogError"

\* Tap.discover_streams(): the list a Tap that supports discovery returns;
\* the default raises NotImplementedError.
discover_streams ==
    IF fault.kind = "load_streams"
    THEN [raised |-> "NotImplementedError", value |-> <<>>]
    ELSE [raised |-> "none", value |-> load_result]

\* Tap.load_streams(): by default the output of discover_streams().
load_streams == discover_streams

\* "if self.input_catalog": None and the empty dict are false.
input_catalog_given == \E c \in _input_catalog : c.keys # {}

\* stream.apply_catalog(self.input_catalog): the exception it raises, or "none".
\* Entries of the catalog for other streams are not looked at.
apply_catalog(stream) ==
    IF fault.kind = "apply_catalog" /\ fault.stream = stream
    THEN CatalogError
    ELSE "none"

\* resolve_streams with a bug: nothing is cached, every access loads again.
resolve_streams_uncached ==
    LET l == load_streams IN
    IF l.raised # "none"
    THEN [raised |-> l.raised, map |-> <<>>, cache |-> {<<>>}, loads |-> 1,
          applies |-> <<>>]
    ELSE [raised |-> "none", map |-> l.value, cache |-> {l.value}, loads |-> 1,
          applies |-> IF input_catalog_given THEN l.value ELSE <<>>]

\* resolve_streams with a bug: a catalog entry for a stream that was not
\* loaded is an error.
resolve_streams_unknown_entry_raises ==
    IF _streams # {}
    THEN [raised |-> "none", map |-> CHOOSE d \in _streams : TRUE, cache |-> _streams,
          loads |-> 0, applies |-> <<>>]
    ELSE IF \E c \in _input_catalog : c.streams \ Range(load_result) # {}
    THEN [raised |-> "KeyError", map |-> <<>>, cache |-> {<<>>}, loads |-> 1,
          applies |-> <<>>]
    ELSE [raised |-> "none", map |-> load_result, cache |-> {load_result}, loads |-> 1,
          applies |-> IF input_catalog_given THEN load_result ELSE <<>>]

\* One evaluation of the property Tap.streams: the exception it raises or the
\* dict it returns (map: the keys in insertion order), the value _streams has
\* afterwards (cache), the number of load_streams() calls it made (loads)
\* and the streams it called apply_catalog on (applies).  _streams is set to
\* the empty dict before load_streams() is called and filled stream by
\* stream, so an exception leaves it empty or partly filled.
resolve_streams ==
    IF _streams # {}
    THEN [raised |-> "none", map |-> CHOOSE d \in _streams : TRUE, cache |-> _streams,
          loads |-> 0, applies |-> <<>>]
    ELSE LET l   == load_streams
             bad == {i \in 1..Len(l.value) :
                        input_catalog_given /\ apply_catalog(l.value[i]) # "none"}
         IN  IF l.raised # "none"
             THEN [raised |-> l.raised, map |-> <<>>, cache |-> {<<>>}, loads |-> 1,
                   applies |-> <<>>]
             ELSE IF bad # {}
             THEN LET k == CHOOSE i \in bad : \A j \in bad : i <= j IN
                  [raised |-> apply_catalog(l.value[k]), map |-> <<>>,
                   cache |-> {SubSeq(l.value, 1, k - 1)}, loads |-> 1,
                   applies |-> SubSeq(l.value, 1, k)]
             ELSE [raised |-> "none", map |-> l.value, cache |-> {l.value},
                   loads |-> 1,
                   applies |-> IF input_catalog_given THEN l.value ELSE <<>>]

\* Tap.streams: the dict (as the list of its keys, in insertion order), built
\* from load_streams() on the first access and cached in _streams.
streams == resolve_streams.map

\* The entry of the history for one evaluation r of Tap.streams by op.
Access(op, r) == [op |-> op, raised |-> r.raised, map |-> r.map, loads |-> r.loads]

\* Tap.streams is evaluated by op: _streams is assigned and the history kept.
Resolve(op) ==
    /\ _streams' = resolve_streams.cache
    /\ load_calls' = load_calls + resolve_streams.loads
    /\ applied' = applied \o resolve_streams.applies
    /\ accesses' = Append(accesses, Access(op, resolve_streams))

Init ==
    /\ config = SyncConfig
    /\ _input_catalog = {}
    /\ fault = NoFault
    /\ load_calls = 0
    /\ applied = <<>>
    /\ accesses = <<>>
    /\ load_result \in LoadResults
    /\ replication \in ReplicationChoices
    /\ max_pk_values \in GetBookmarkOutcomes
    /\ _streams = {}
    /\ _state \in InputStates
    /\ state0 = _state
    /\ output = <<>>
    /\ pc = "idle"
    /\ error = "none"
    /\ arg = ""
    /\ pos = 0
    /\ cur = NoStream
    /\ started = <<>>
    /\ completed = <<>>
    /\ processed = [s \in StreamNames |-> <<>>]
    /\ nfetched = 0
    /\ substream_ids = <<>>
    /\ params = <<>>

\* The ValueError of sync_one ("Could not find stream ...") and the one of
\* EpicIssuesStream.get_params ("Cannot sync epic issues without ...").
StreamNotFound == "ValueError: could not find stream"

\* sync_one with a bug: a name that is not found falls back to the first stream.
sync_one_stream_default(stream_name) ==
    IF stream_name \notin Range(streams) THEN {streams[1]} ELSE {stream_name}

\* The stream sync_one(stream_name) syncs: {} when it raises instead.
sync_one_stream(stream_name) ==
    IF stream_name \notin Range(streams) THEN {} ELSE {stream_name}

\* Tap.sync_one(stream_name), up to the call of stream.sync().
SyncOne(stream_name) ==
    /\ pc = "idle"
    /\ arg' = stream_name
    /\ Resolve("sync_one")
    /\ IF resolve_streams.raised # "none"
       THEN /\ pc' = "failed"
            /\ error' = resolve_streams.raised
            /\ cur' = cur
       ELSE IF sync_one_stream(stream_name) = {}
       THEN /\ pc' = "failed"
            /\ error' = StreamNotFound
            /\ cur' = cur
       ELSE /\ pc' = "sync_one"
            /\ error' = error
            /\ cur' = PendingStream(CHOOSE s \in sync_one_stream(stream_name) : TRUE)
    /\ UNCHANGED <<config, _input_catalog, fault, load_result, replication, max_pk_values, _state, state0, output, pos,
                   started, completed, processed, nfetched, substream_ids, params>>

\* sync_all's loop with a bug: the streams are taken in reverse order.
sync_all_stream_reversed(i) ==
    IF i <= Len(streams) THEN {streams[Len(streams) + 1 - i]} ELSE {}

\* sync_all's loop: the stream at index i of self.streams.values(), {} past the end.
sync_all_stream(i) ==
    IF i <= Len(streams) THEN {streams[i]} ELSE {}

\* after_sync with a bug: sync_one goes on through the streams as sync_all does.
after_sync_goes_on == sync_all_stream(pos + 1)

\* The stream synced after a call of stream.sync() has returned: the next of
\* sync_all's loop; none after sync_one's single call.
after_sync == IF pc = "sync_all" THEN sync_all_stream(pos + 1) ELSE {}

\* Tap.sync_all(), up to the first call of stream.sync().
SyncAll ==
    /\ pc = "idle"
    /\ Resolve("sync_all")
    /\ pos' = 1
    /\ IF resolve_streams.raised # "none"
       THEN /\ pc' = "failed"
            /\ error' = resolve_streams.raised
            /\ cur' = cur
       ELSE IF sync_all_stream(1) = {}
       THEN pc' = "done" /\ error' = error /\ cur' = cur
       ELSE /\ pc' = "sync_all"
            /\ error' = error
            /\ cur' = PendingStream(CHOOSE s \in sync_all_stream(1) : TRUE)
    /\ UNCHANGED <<config, _input_catalog, fault, load_result, replication, max_pk_values, _state, state0, output,
                   arg, started, completed, processed, nfetched, substream_ids, params>>

\* unhandled with a bug: sync_all catches the exception and goes on.
unhandled_skipped(p) == IF p = "sync_all" THEN "sync_all" ELSE "failed"

\* An exception raised in stream.sync() leaves sync_one and sync_all, which
\* have no except clause: the operation in state p has failed.
unhandled(p) == "failed"

\* Stream.sync begins: the SCHEMA message is written and the substreams are
\* enumerated.
EnumerateSubstreams ==
    /\ pc \in {"sync_one", "sync_all"}
    /\ cur.phase = "PENDING"
    /\ started' = Append(started, cur.name)
    /\ output' = Append(output, SchemaMessage(cur.name))
    /\ cur' = [cur EXCEPT !.phase = "ENUMERATING_SUBSTREAMS",
                          !.substreams = get_substream_ids(config, _state, cur.name)]
    /\ UNCHANGED <<config, _input_catalog, fault, load_calls, applied, accesses, load_result,
                   replication, max_pk_values, _streams, _state, state0, pc,
                   error, arg, pos, completed, processed, nfetched, substream_ids,
                   params>>

\* Stream.sync turns to the next substream: get_params builds its request
\* parameters, or raises and ends the sync.
BeginSubstream ==
    /\ pc \in {"sync_one", "sync_all"}
    /\ cur.phase \in {"ENUMERATING_SUBSTREAMS", "SYNCING_SUBSTREAM"}
    /\ cur.idx < Len(cur.substreams)
    /\ LET p == get_params(config, _state, cur.name, cur.substreams[cur.idx + 1]) IN
       IF p.raised # "none"
       THEN /\ pc' = unhandled(pc)
            /\ error' = p.raised
            /\ cur' = cur
       ELSE /\ pc' = pc
            /\ error' = error
            /\ cur' = [cur EXCEPT !.phase = "SYNCING_SUBSTREAM", !.idx = @ + 1]
    /\ UNCHANGED <<config, _input_catalog, fault, load_calls, applied, accesses, load_result,
                   replication, max_pk_values, _streams, _state, state0, output,
                   arg, pos, started, completed, processed, nfetched, substream_ids,
                   params>>

\* Stream.sync handles one fetched record: post_process, then the bookmark
\* update, then the RECORD message.
ProcessRecord(row) ==
    /\ pc \in {"sync_one", "sync_all"}
    /\ cur.phase = "SYNCING_SUBSTREAM"
    /\ nfetched < MaxRecords
    /\ nfetched' = nfetched + 1
    /\ processed' = [processed EXCEPT ![cur.name] = Append(@, row)]
    /\ LET u == update_bookmarks(post_process(_state, cur.name, row), cur.name, row) IN
       /\ _state' = u.state
       /\ IF u.raised # "none"
          THEN /\ pc' = unhandled(pc)
               /\ error' = u.raised
               /\ output' = output
          ELSE /\ pc' = pc
               /\ error' = error
               /\ output' = Append(output,
                                RecordMessage(cur.name, cur.substreams[cur.idx], row))
    /\ UNCHANGED <<config, _input_catalog, fault, load_calls, applied, accesses, load_result,
                   replication, max_pk_values, _streams, state0, arg, pos, cur,
                   started, completed, substream_ids, params>>

\* write_state with a bug: the state the Tap was constructed with is written.
write_state_as_loaded(out, state) == Append(out, StateMessage(state0))

\* The STATE message written at the end of a stream's sync: the full current
\* bookmark state.
write_state(out, state) == Append(out, StateMessage(state))

\* Stream.sync returns after its last substream: the STATE message is
\* written; sync_one returns, sync_all's loop turns to the next stream.
CompleteStream ==
    /\ pc \in {"sync_one", "sync_all"}
    /\ cur.phase \in {"ENUMERATING_SUBSTREAMS", "SYNCING_SUBSTREAM"}
    /\ cur.idx = Len(cur.substreams)
    /\ output' = write_state(output, _state)
    /\ completed' = Append(completed, cur.name)
    /\ IF after_sync # {}
       THEN /\ pc' = pc
            /\ pos' = pos + 1
            /\ cur' = PendingStream(CHOOSE s \in after_sync : TRUE)
       ELSE /\ pc' = "done"
            /\ pos' = pos
            /\ cur' = NoStream
    /\ UNCHANGED <<config, _input_catalog, fault, load_calls, applied, accesses, load_result,
                   replication, max_pk_values, _streams, _state, state0, error,
                   arg, started, processed, nfetched, substream_ids, params>>

Next ==
    \/ \E stream_name \in SyncOneNames : SyncOne(stream_name)
    \/ SyncAll
    \/ EnumerateSubstreams
    \/ BeginSubstream
    \/ \E row \in Records : ProcessRecord(row)
    \/ CompleteStream

Spec == Init /\ [][Next]_vars

-----------------------------------------------------------------------------
\* Request parameters: get_substream_ids of a project-based stream under any
\* configuration, then get_params of each identifier it returned.

InitParams ==
    /\ config \in Configs
    /\ _input_catalog = {}
    /\ fault = NoFault
    /\ load_calls = 0
    /\ applied = <<>>
    /\ accesses = <<>>
    /\ load_result = <<"projects">>
    /\ replication = [s \in StreamNames |-> FullTable]
    /\ max_pk_values = "raise"
    /\ _streams = {}
    /\ _state = EmptyState
    /\ state0 = _state
    /\ output = <<>>
    /\ pc = "params"
    /\ error = "none"
    /\ arg = ""
    /\ pos = 0
    /\ cur = NoStream
    /\ started = <<>>
    /\ completed = <<>>
    /\ processed = [s \in StreamNames |-> <<>>]
    /\ nfetched = 0
    /\ substream_ids = <<>>
    /\ params = <<>>

GetSubstreamIds ==
    /\ pc = "params"
    /\ pc' = "enumerated"
    /\ substream_ids' = get_substream_ids(config, _state, "projects")
    /\ UNCHANGED <<config, _input_catalog, fault, load_calls, applied, accesses, load_result,
                   replication, max_pk_values, _streams, _state,
                   state0, output, error, arg, pos, cur, started, completed, processed,
                   nfetched, params>>

GetParams ==
    /\ pc = "enumerated"
    /\ Len(params) < Len(substream_ids)
    /\ params' = Append(params, get_params(config, _state, "projects",
                                            substream_ids[Len(params) + 1]))
    /\ UNCHANGED <<config, _input_catalog, fault, load_calls, applied, accesses, load_result,
                   replication, max_pk_values, _streams, _state,
                   state0, output, pc, error, arg, pos, cur, started, completed,
                   processed, nfetched, substream_ids>>

NextParams == GetSubstreamIds \/ GetParams

SpecParams == InitParams /\ [][NextParams]_vars

-----------------------------------------------------------------------------
\* Stream resolution: a Tap constructed with any catalog, whose resolution
\* may fail, is used by a caller that reads Tap.streams and runs discovery
\* any number of times, before and after a sync, going on after an exception.

\* The catalog run_discovery prints: the entries of the resolved streams.
CatalogMessage(names) ==
    [type |-> "CATALOG", stream |-> "", substream |-> <<>>, record |-> {},
     value |-> {names}]

InitResolve ==
    /\ config = SyncConfig
    /\ _input_catalog \in InputCatalogs
    /\ fault \in Faults
    /\ load_calls = 0
    /\ applied = <<>>
    /\ accesses = <<>>
    /\ load_result \in LoadResults
    /\ replication = [s \in StreamNames |-> FullTable]
    /\ max_pk_values = "falsy"
    /\ _streams = {}
    /\ _state = EmptyState
    /\ state0 = _state
    /\ output = <<>>
    /\ pc = "idle"
    /\ error = "none"
    /\ arg = ""
    /\ pos = 0
    /\ cur = NoStream
    /\ started = <<>>
    /\ completed = <<>>
    /\ processed = [s \in StreamNames |-> <<>>]
    /\ nfetched = 0
    /\ substream_ids = <<>>
    /\ params = <<>>

\* A caller reads the property Tap.streams.
AccessStreams ==
    /\ pc \in {"idle", "done", "failed"}
    /\ Len(accesses) < MaxAccesses
    /\ Resolve("streams")
    /\ UNCHANGED <<config, _input_catalog, fault, load_result, replication,
                   max_pk_values, _state, state0, output, pc, error, arg, pos, cur,
                   started, completed, processed, nfetched, substream_ids, params>>

\* Tap.run_discovery(): get_singer_catalog() reads self.streams and the
\* catalog is printed.
RunDiscovery ==
    /\ pc \in {"idle", "done", "failed"}
    /\ Len(accesses) < MaxAccesses
    /\ Resolve("run_discovery")
    /\ output' = IF resolve_streams.raised # "none" THEN output
                 ELSE Append(output, CatalogMessage(resolve_streams.map))
    /\ UNCHANGED <<config, _input_catalog, fault, load_result, replication,
                   max_pk_values, _state, state0, pc, error, arg, pos, cur,
                   started, completed, processed, nfetched, substream_ids, params>>

NextResolve ==
    \/ AccessStreams
    \/ RunDiscovery
    \/ \E stream_name \in SyncOneNames : SyncOne(stream_name)
    \/ SyncAll
    \/ EnumerateSubstreams
    \/ BeginSubstream
    \/ \E row \in Records : ProcessRecord(row)
    \/ CompleteStream

SpecResolve == InitResolve /\ [][NextResolve]_vars

-----------------------------------------------------------------------------
\* Properties.

\* sync_all has been called on this Tap / sync_one has been called on it.
SyncAllCalled == pc \in {"sync_all", "done", "failed"} /\ arg = ""

SyncOneCalled == pc \in {"sync_one", "done", "failed"} /\ arg # ""

\* The messages of one type in the output, in order.
MessagesOfType(type) == SelectSeq(output, LAMBDA m : m.type = type)

NonDecreasing(records, k) ==
    \A i \in 1..(Len(records) - 1) : records[i][k] <= records[i + 1][k]

\* C1: in a run of sync_all, the sync of a stream that declares
\* parent_stream_types begins only after the sync of each of its parents in
\* the resolved set has completed, whatever order load_streams returned.
C1_ParentsCompleteBeforeChildren ==
    SyncAllCalled =>
        \A i \in 1..Len(started) :
            \A parent \in parent_stream_types(started[i]) \cap Range(streams) :
                \E j \in 1..(i - 1) :
                    started[j] = parent /\ j <= Len(completed) /\ completed[j] = parent

\* C2: for a FULL_TABLE stream, after update_bookmarks has been called with a
\* non-empty sequence of records, last_pk_fetched holds exactly the primary-key
\* values of the last record.
C2_LastPkFetchedIsLastRecord ==
    \A s \in StreamNames :
        (replication_method(s) = "FULL_TABLE" /\ processed[s] # <<>>) =>
            BookmarkOf(_state, s).last_pk_fetched = {PkValues(s, Last(processed[s]))}

\* C3: for an INCREMENTAL stream with a replication key, after
\* update_bookmarks has processed a non-empty sequence of records whose
\* replication-key values are non-decreasing, replication_key_value is the
\* replication-key value of the last record.
C3_ReplicationKeyValueIsLast ==
    \A s \in StreamNames :
        (/\ replication_method(s) = "INCREMENTAL"
         /\ replication_key(s) # {}
         /\ processed[s] # <<>>
         /\ NonDecreasing(processed[s], CHOOSE k \in replication_key(s) : TRUE)) =>
            BookmarkOf(_state, s).replication_key_value =
                {Last(processed[s])[CHOOSE k \in replication_key(s) : TRUE]}

\* C3's case: an INCREMENTAL stream has processed two records with increasing
\* replication-key values.
C3_Witness ==
    \E s \in StreamNames :
        /\ replication_method(s) = "INCREMENTAL"
        /\ replication_key(s) # {}
        /\ Len(processed[s]) = 2
        /\ processed[s][1].updated_at < processed[s][2].updated_at
        /\ BookmarkOf(_state, s).replication_key_value = {processed[s][2].updated_at}

\* C4: a stream without a bookmark entry in the input state has a version
\* marker in its bookmark once update_bookmarks has been called for it, and
\* never holds a record-derived value without it; also for the later streams
\* of a run and when the state holds bookmarks of other streams.
C4_VersionMarkerFirst ==
    \A s \in StreamNames :
        s \notin DOMAIN state0.bookmarks =>
            /\ processed[s] # <<>> => BookmarkOf(_state, s).version # {}
            /\ (BookmarkOf(_state, s).last_pk_fetched # {}
                \/ BookmarkOf(_state, s).replication_key_value # {}) =>
                   BookmarkOf(_state, s).version # {}

\* The substream Stream.sync turns to next has no epic_id in the state.
NextSubstreamLacksEpicId ==
    /\ cur.name = "epic_issues"
    /\ cur.idx < Len(cur.substreams)
    /\ read_stream_state(_state, "epic_issues", cur.substreams[cur.idx + 1]).epic_id = {}

\* C5: when the sync of epic_issues turns to a substream whose epic_id is
\* absent from the state, get_params raises the dependency-state error: the
\* sync fails, no message is written, the state is not changed, and the
\* output holds no record of that substream.
C5_DependencyStateError ==
    [][(BeginSubstream /\ NextSubstreamLacksEpicId) =>
          /\ pc' = "failed"
          /\ error' = DependencyStateError
          /\ output' = output
          /\ _state' = _state
          /\ \A i \in 1..Len(output') :
                 ~(/\ output'[i].type = "RECORD"
                   /\ output'[i].stream = "epic_issues"
                   /\ output'[i].substream = cur.substreams[cur.idx + 1])]_vars

\* C5's case: epic_issues was synced before its parent ran and failed on a
\* substream without epic_id.
C5_Witness ==
    /\ pc = "failed"
    /\ error = DependencyStateError
    /\ cur.name = "epic_issues"
    /\ "epics" \notin Range(started)
    /\ NextSubstreamLacksEpicId

C7_SyncOneUnknownStream ==
    (SyncOneCalled /\ arg \notin Range(streams)) =>
        /\ pc = "failed"
        /\ error = StreamNotFound
        /\ started = <<>>
        /\ cur = NoStream
        /\ output = <<>>
        /\ _state = state0

\* C7's case: sync_one was called with an unresolved name on a Tap that
\* holds bookmarks.
C7_Witness ==
    /\ SyncOneCalled
    /\ arg \notin Range(streams)
    /\ state0 # EmptyState
    /\ Len(streams) = Cardinality(StreamNames)

\* C8: sync_one with a resolved name syncs that stream and no other, once.
C8_SyncOneSyncsOnlyNamed ==
    (SyncOneCalled /\ arg \in Range(streams)) =>
        /\ started \in {<<>>, <<arg>>}
        /\ completed \in {<<>>, <<arg>>}
        /\ cur.name \in {"", arg}
        /\ \A i \in 1..Len(output) : output[i].stream \in {"", arg}
        /\ pc = "done" => (started = <<arg>> /\ completed = <<arg>>)

\* C8's case: sync_one("epic_issues") has synced a substream and returned
\* while the parent epics is a resolved stream too.
C8_Witness ==
    /\ SyncOneCalled
    /\ arg = "epic_issues"
    /\ "epics" \in Range(streams)
    /\ pc = "done"
    /\ completed = <<"epic_issues">>
    /\ max_pk_values = "raise"
    /\ BookmarkOf(_state, "epic_issues").substreams # <<>>

\* C9: get_substream_ids returns "project_id=<id>" for each configured id, in
\* configuration order, and get_params of each returned identifier yields the
\* configured id as project_id and the configured start_date.
C9_ProjectIdRoundTrip ==
    pc = "enumerated" =>
        /\ Len(substream_ids) = Len(config.project_ids)
        /\ \A i \in 1..Len(substream_ids) :
               substream_ids[i] = ProjectIdPrefix \o config.project_ids[i]
        /\ \A i \in 1..Len(params) :
               /\ params[i].raised = "none"
               /\ params[i].project_id = {config.project_ids[i]}
               /\ params[i].start_date = config.start_date

\* C10: in a run of sync_all, each completed stream has written one STATE
\* message, and when a stream has completed and the next is about to begin
\* (or the run has ended) the last message written is the STATE message
\* holding the full current bookmark state.
C10_StateCheckpointAfterEachStream ==
    SyncAllCalled =>
        /\ Len(MessagesOfType("STATE")) = Len(completed)
        /\ (completed # <<>> /\ (cur.phase = "PENDING" \/ pc = "done")) =>
               Last(output) = StateMessage(_state)

\* C10's case: in sync_all a stream that processed a record has completed
\* and the next stream is about to begin.
C10_Witness ==
    /\ SyncAllCalled
    /\ cur.phase = "PENDING"
    /\ completed # <<>>
    /\ processed[Last(completed)] # <<>>
    /\ _state # state0

\* The stored replication_key_value of stream s in a state, as a set.
StoredKeyValue(state, s) == BookmarkOf(state, s).replication_key_value

\* The next value stored is never lower than the one stored before it.
KeyValueNotLower(s) ==
    \A a \in StoredKeyValue(_state, s) :
        \A b \in StoredKeyValue(_state', s) : a <= b

\* C11 as stated: within one sync the stored replication_key_value of a
\* stream never goes down from one write to the next, whatever the order the
\* records arrive in.
C11_KeyValueMonotonic ==
    [][\A s \in StreamNames : processed[s] # <<>> => KeyValueNotLower(s)]_vars

\* C11 amended: within one sync the stored replication_key_value of a stream
\* never goes down from one write to the next provided the records reach
\* update_bookmarks in non-decreasing order of the replication key;
\* update_bookmarks compares nothing and stores each record's value.
C11_KeyValueMonotonicWhenOrdered ==
    [][\A s \in StreamNames :
          (/\ replication_key(s) # {}
           /\ NonDecreasing(processed'[s], CHOOSE k \in replication_key(s) : TRUE)) =>
              KeyValueNotLower(s)]_vars

C11_Witness ==
    \E s \in StreamNames :
        /\ replication_method(s) \in {"INCREMENTAL", "LOG_BASED"}
        /\ replication_key(s) # {}
        /\ Len(processed[s]) = 2
        /\ processed[s][1].id > processed[s][2].id
        /\ NonDecreasing(processed[s], CHOOSE k \in replication_key(s) : TRUE)
        /\ StoredKeyValue(_state, s) = {processed[s][2].updated_at}
        /\ pc \in {"sync_one", "sync_all", "done"}

\* C12: once a stream has processed a record, exactly one bookmark shape is
\* populated for it: last_pk_fetched alone for FULL_TABLE, replication_key
\* with replication_key_value alone for INCREMENTAL and LOG_BASED.
C12_OneBookmarkShape ==
    \A s \in StreamNames :
        processed[s] # <<>> =>
            LET b == BookmarkOf(_state, s) IN
            /\ replication_method(s) = "FULL_TABLE" =>
                  /\ b.last_pk_fetched # {}
                  /\ b.replication_key = {}
                  /\ b.replication_key_value = {}
            /\ (replication_method(s) # "FULL_TABLE" /\ replication_key(s) # {}) =>
                  /\ b.last_pk_fetched = {}
                  /\ b.replication_key # {}
                  /\ b.replication_key_value # {}

\* Every bookmark key populated in state old is populated with the same value
\* in state new, and every registered substream is still registered.
Preserved(old, new) ==
    /\ old.keys \subseteq new.keys
    /\ DOMAIN old.bookmarks \subseteq DOMAIN new.bookmarks
    /\ \A s \in DOMAIN old.bookmarks :
           LET b == old.bookmarks[s]
               c == new.bookmarks[s]
           IN  /\ b.version # {} => c.version = b.version
               /\ b.last_pk_fetched # {} => c.last_pk_fetched = b.last_pk_fetched
               /\ b.replication_key # {} => c.replication_key = b.replication_key
               /\ b.replication_key_value # {} =>
                      c.replication_key_value = b.replication_key_value
               /\ \A i \in 1..Len(b.substreams) :
                      /\ i <= Len(c.substreams)
                      /\ c.substreams[i] = b.substreams[i]

\* C14: a failure rolls nothing back: the step on which a sync fails keeps
\* every bookmark the state held, and the messages already written.
C14_NoRollbackOnFailure ==
    [][(pc # "failed" /\ pc' = "failed") =>
          /\ Preserved(_state, _state')
          /\ output' = output]_vars

C14_Witness ==
    /\ pc = "failed"
    /\ error = "AttributeError"
    /\ _state # state0
    /\ \E s \in StreamNames :
           /\ s # cur.name
           /\ processed[s] # <<>>
           /\ StoredKeyValue(_state, s) # {}
    /\ MessagesOfType("RECORD") # <<>>

\* C15: in sync_all an exception raised while a stream syncs ends the run:
\* the run is failed with that error, the stream is not completed, and
\* nothing happens afterwards, so no later stream is started.
C15_FailureAbortsSyncAll ==
    [][arg = "" =>
          /\ pc # "failed"
          /\ error = "none"
          /\ error' # "none" =>
                 /\ pc' = "failed"
                 /\ started' = started
                 /\ completed' = completed
                 /\ cur'.name \notin Range(completed')]_vars

C15_Witness ==
    /\ pc = "failed"
    /\ arg = ""
    /\ error = DependencyStateError
    /\ pos < Len(streams)
    /\ Last(started) = "epic_issues"
    /\ streams[Len(streams)] \notin Range(started)

\* C17: sync_all starts the streams in the order load_streams returned them,
\* so two streams neither of which is the other's parent are synced in that
\* order, and the order is the same on every run with the same streams.
C17_SyncAllInLoadOrder ==
    (SyncAllCalled /\ pc # "idle") =>
        /\ Len(started) <= Len(load_result)
        /\ \A i \in 1..Len(started) : started[i] = load_result[i]

C17_Witness ==
    /\ SyncAllCalled
    /\ pc = "done"
    /\ Len(started) >= 2
    /\ started[1] = "projects"
    /\ started[2] = "epics"
    /\ completed = started

\* C18: once the parent has completed and registered the substream of an
\* epic, the child's get_params for that substream succeeds and carries the
\* epic's id.
C18_RegisteredSubstreamHasParams ==
    "epics" \in Range(completed) =>
        \A i \in 1..Len(processed["epics"]) :
            LET id == processed["epics"][i].id
                p  == get_params(config, _state, "epic_issues", EpicPrefix \o ToStr(id))
            IN  /\ p.raised = "none"
                /\ p.epic_id = {id}

\* C20: processing a record of stream S changes the bookmark entry of S
\* only: update_bookmarks leaves every other stream's entry as the record's
\* post_process left it.
C20_OnlyOwnBookmarkChanges ==
    [][processed' # processed =>
          LET s   == cur.name
              mid == post_process(_state, s, Last(processed'[s]))
          IN  \A t \in StreamNames \ {s} :
                  /\ t \in DOMAIN _state'.bookmarks <=> t \in DOMAIN mid.bookmarks
                  /\ BookmarkOf(_state', t) = BookmarkOf(mid, t)]_vars

C20_Witness ==
    \E s \in StreamNames :
        /\ processed[s] # <<>>
        /\ StoredKeyValue(_state, s) # {}
        /\ \E t \in DOMAIN _state.bookmarks :
               /\ t # s
               /\ _state.bookmarks[t] # EmptyBookmark
               /\ StoredKeyValue(_state, t) = {}

\* C13: the stream map is resolved once and cached: over any sequence of
\* reads of streams, discovery and syncs on one Tap, load_streams is called
\* at most once, apply_catalog at most once per stream, and every access that
\* returns a mapping returns the same one.
C13_StreamsResolvedOnce ==
    /\ load_calls <= 1
    /\ NoDuplicates(applied)
    /\ \A i, j \in 1..Len(accesses) :
           (accesses[i].raised = "none" /\ accesses[j].raised = "none") =>
               accesses[i].map = accesses[j].map
    /\ \A i \in 1..Len(accesses) : accesses[i].raised = "none" => _streams = {accesses[i].map}

C13_Witness ==
    /\ Len(accesses) = 3
    /\ accesses[1].op = "streams"
    /\ accesses[2].op = "run_discovery"
    /\ accesses[3].op = "sync_all"
    /\ accesses[3].map = load_result
    /\ input_catalog_given
    /\ applied = load_result
    /\ Len(load_result) = 3
    /\ load_calls = 1

\* C16: a catalog entry for a stream load_streams does not return has no
\* effect: whatever the catalog, when nothing else fails every access
\* succeeds and the resolved streams are the ones load_streams returned, in
\* the same order.
C16_UnknownCatalogEntryIgnored ==
    fault = NoFault =>
        \A i \in 1..Len(accesses) :
            /\ accesses[i].raised = "none"
            /\ accesses[i].map = load_result

C16_Witness ==
    /\ fault = NoFault
    /\ \E c \in _input_catalog : "no_such_stream" \in c.streams
    /\ "projects" \notin Range(load_result)
    /\ accesses # <<>>
    /\ applied = load_result
    /\ pc = "done"
    /\ completed = load_result

\* C19: after an access on which the resolution failed, every later access
\* fails too or loads the streams again: none returns the empty or partly
\* filled map the failure left, and sync_all never completes having synced
\* nothing.
C19_FailedResolutionNotCached ==
    \A i \in 1..Len(accesses) :
        accesses[i].raised # "none" =>
            /\ \A j \in (i + 1)..Len(accesses) :
                   \/ accesses[j].raised # "none"
                   \/ accesses[j].loads > 0
            /\ ~(pc = "done" /\ arg = "" /\ started = <<>>)

====
